---- MODULE Spec2Model ----
(***************************************************************************)
(* Model of preprocess() in preprocessing/automate_Shelo_Rahma_Sari.py:    *)
(* a single pass over a pandas DataFrame: load, drop_duplicates, target    *)
(* encoding, IQR outlier filter on age, pd.cut binning of age, split,      *)
(* get_dummies(drop_first=True), StandardScaler, to_csv.                   *)
(*                                                                         *)
(* A table is a sequence of rows; a row is [index |-> label, row |-> f]    *)
(* where label is the pandas index label (RangeIndex from read_csv, kept   *)
(* by drop_duplicates and boolean indexing) and f maps column names to     *)
(* values.  Numbers that pandas holds as floats are kept exact: quantiles  *)
(* are carried times 4, bounds times 8, standardized values as a           *)
(* numerator and the square of the denominator.                            *)
(***************************************************************************)
EXTENDS Integers, Sequences, FiniteSets, TLC

\* ---------------------------------------------------------------- bounds
MaxRows == 5

MaxBadRows == 3

\* ------------------------------------------------------ input population
\* Records the input file's rows are drawn from: two that differ in y
\* only, an age above the last bin edge.
ValidPool ==
  { [age |-> 25,  job |-> "tech",  y |-> "yes"],
    [age |-> 25,  job |-> "tech",  y |-> "no"],
    [age |-> 40,  job |-> "admin", y |-> "yes"],
    [age |-> 101, job |-> "admin", y |-> "no"] }

\* The same with a record whose target is neither "yes" nor "no".
Pool == ValidPool \cup { [age |-> 40, job |-> "tech", y |-> "maybe"] }

\* The rows of the documented end-to-end scenario (ages 25, 70, 40, 40).
ScenarioRecords ==
  << [age |-> 25, job |-> "tech",  y |-> "yes"],
     [age |-> 70, job |-> "admin", y |-> "no"],
     [age |-> 40, job |-> "tech",  y |-> "yes"],
     [age |-> 40, job |-> "tech",  y |-> "yes"] >>

\* Headers of the input file (column order as in the file).
Headers ==
  { <<"age", "job", "y">>, <<"age", "y">>, <<"job", "y">>, <<"age", "job">> }

Range(s) == { s[i] : i \in 1..Len(s) }

SeqsUpTo(S, n) == UNION { [1..k -> S] : k \in 0..n }

\* read_csv: every record restricted to the header's columns.
ReadCsv(hdr, recs) ==
  [i \in 1..Len(recs) |->
     [index |-> i - 1, row |-> [c \in Range(hdr) |-> recs[i][c]]]]

\* ------------------------------------------------------------- helpers
Index(t) == [i \in 1..Len(t) |-> t[i].index]

\* df[mask]: rows whose mask entry is TRUE, in order, labels kept.
RECURSIVE BoolIndex(_, _)
BoolIndex(t, mask) ==
  IF t = <<>> THEN <<>>
  ELSE LET rest == BoolIndex(Tail(t), Tail(mask))
       IN  IF Head(mask) THEN <<Head(t)>> \o rest ELSE rest

\* Variant: duplicated(keep="last").
DuplicatedKeepLast(t) ==
  [i \in 1..Len(t) |-> \E j \in (i + 1)..Len(t) : t[j].row = t[i].row]

\* DataFrame.duplicated(keep="first") over all columns.
Duplicated(t) ==
  [i \in 1..Len(t) |-> \E j \in 1..(i - 1) : t[j].row = t[i].row]

DropDuplicates(t) ==
  BoolIndex(t, [i \in 1..Len(t) |-> ~Duplicated(t)[i]])

\* Series.map({"yes": 1, "no": 0}); a value without an entry becomes NaN.
NaN == -999

\* Variant: (y == "yes").astype(int), every other value becomes 0.
TargetMapLenient(v) == IF v = "yes" THEN 1 ELSE 0

TargetMap(v) == IF v = "yes" THEN 1 ELSE IF v = "no" THEN 0 ELSE NaN

\* df["y"] = df["y"].map(...): column y replaced, the rest untouched.
MapTarget(t) ==
  [i \in 1..Len(t) |->
     [index |-> t[i].index,
      row   |-> [d \in DOMAIN t[i].row |->
                   IF d = "y" THEN TargetMap(t[i].row[d]) ELSE t[i].row[d]]]]

Column(t, c) == [i \in 1..Len(t) |-> t[i].row[c]]

\* Series.quantile(q/4), linear interpolation, returned times 4.
Quantile4(vals, q) ==
  LET s    == SortSeq(vals, LAMBDA a, b : a < b)
      pos4 == (Len(s) - 1) * q
      lo   == pos4 \div 4
      fr   == pos4 % 4
  IN  IF fr = 0 THEN 4 * s[lo + 1]
      ELSE 4 * s[lo + 1] + fr * (s[lo + 2] - s[lo + 1])

\* Variant: the fences are exclusive (> and < instead of >= and <=).
OutlierMaskStrict(t) ==
  IF t = <<>> THEN <<>>
  ELSE LET ages        == Column(t, "age")
           q1          == Quantile4(ages, 1)
           q3          == Quantile4(ages, 3)
           iqr         == q3 - q1
           batas_bawah == 2 * q1 - 3 * iqr
           batas_atas  == 2 * q3 + 3 * iqr
       IN  [i \in 1..Len(t) |->
              8 * ages[i] > batas_bawah /\ 8 * ages[i] < batas_atas]

\* Lines 58-63: the mask of rows inside [q1 - 1.5 iqr, q3 + 1.5 iqr].
\* On an empty column both quantiles are NaN and the mask is empty.
OutlierMask(t) ==
  IF t = <<>> THEN <<>>
  ELSE LET ages        == Column(t, "age")
           q1          == Quantile4(ages, 1)
           q3          == Quantile4(ages, 3)
           iqr         == q3 - q1
           batas_bawah == 2 * q1 - 3 * iqr
           batas_atas  == 2 * q3 + 3 * iqr
       IN  [i \in 1..Len(t) |->
              8 * ages[i] >= batas_bawah /\ 8 * ages[i] <= batas_atas]

NaNLabel == "NaN"

\* pd.cut(bins=[0,30,45,60,100], labels=..., include_lowest=True).
Bins == <<0, 30, 45, 60, 100>>

\* Variant: the last two labels swapped.
LabelsSwapped == <<"Young", "Adult", "Elder", "Senior">>

Labels == <<"Young", "Adult", "Senior", "Elder">>

SearchSortedLeft(x) == Cardinality({ i \in 1..Len(Bins) : Bins[i] < x })

Cut(x) ==
  LET ids == IF x = Bins[1] THEN 1 ELSE SearchSortedLeft(x)
  IN  IF ids = 0 \/ ids = Len(Bins) THEN NaNLabel ELSE Labels[ids]

\* Variant: rows whose age falls in no bin are dropped (dropna) after cut.
BinRowsDropNa(t) ==
  LET kept == SelectSeq(t, LAMBDA r : Cut(r.row["age"]) # NaNLabel)
  IN  [i \in 1..Len(kept) |->
         [index |-> kept[i].index,
          row   |-> [d \in ((DOMAIN kept[i].row) \ {"age"}) \cup {"age_group"} |->
                       IF d = "age_group" THEN Cut(kept[i].row["age"])
                       ELSE kept[i].row[d]]]]

\* df["age_group"] = cut(df["age"]); df = df.drop(columns=["age"]).
BinRows(t) ==
  [i \in 1..Len(t) |->
     [index |-> t[i].index,
      row   |-> [d \in ((DOMAIN t[i].row) \ {"age"}) \cup {"age_group"} |->
                   IF d = "age_group" THEN Cut(t[i].row["age"])
                   ELSE t[i].row[d]]]]

DropColumn(cs, c) == SelectSeq(cs, LAMBDA d : d # c)

DropRows(t, c) ==
  [i \in 1..Len(t) |->
     [index |-> t[i].index,
      row   |-> [d \in (DOMAIN t[i].row) \ {c} |-> t[i].row[d]]]]

\* ----------------------------------------------------------------- state
VARIABLES
  pc,                 \* position in preprocess
  err,                \* exception raised, "" when none
  inputExists,        \* input_path.exists()
  header, records,    \* content of the input file
  drop_duplicates, handle_outlier_age, bin_age,
  columns, df,        \* df.columns and the rows of df
  after_dedup,        \* df as it left line 46 (history)
  after_outlier,      \* df as it left line 63 (history)
  X_columns, X_encoded, y,
  X_scaled,
  processed_columns, processed_df,
  written             \* the output file exists

vars == <<pc, err, inputExists, header, records,
          drop_duplicates, handle_outlier_age, bin_age,
          columns, df, after_dedup, after_outlier, X_columns, X_encoded,
          y, X_scaled, processed_columns, processed_df, written>>

flags == <<drop_duplicates, handle_outlier_age, bin_age>>

input == <<inputExists, header, records>>

hist == <<after_dedup, after_outlier>>

Init ==
  /\ pc = "start"
  /\ err = ""
  /\ inputExists \in BOOLEAN
  /\ IF inputExists
       THEN /\ header \in Headers
            /\ records \in SeqsUpTo(ValidPool, MaxRows)
                           \cup SeqsUpTo(Pool, MaxBadRows)
                           \cup {ScenarioRecords}
       ELSE /\ header = <<>>
            /\ records = <<>>
  /\ drop_duplicates \in BOOLEAN
  /\ handle_outlier_age \in BOOLEAN
  /\ bin_age \in BOOLEAN
  /\ columns = <<>>
  /\ df = <<>>
  /\ after_dedup = <<>>
  /\ after_outlier = <<>>
  /\ X_columns = <<>>
  /\ X_encoded = <<>>
  /\ y = <<>>
  /\ X_scaled = <<>>
  /\ processed_columns = <<>>
  /\ processed_df = <<>>
  /\ written = FALSE

\* Lines 33-34.
MissingInput ==
  /\ pc = "start"
  /\ ~inputExists
  /\ pc' = "error"
  /\ err' = "FileNotFoundError"
  /\ UNCHANGED <<input, flags, columns, df, hist, X_columns,
                 X_encoded, y, X_scaled, processed_columns, processed_df,
                 written>>

\* Lines 37-42.
Load ==
  /\ pc = "start"
  /\ inputExists
  /\ columns' = header
  /\ df' = ReadCsv(header, records)
  /\ pc' = "dedup"
  /\ UNCHANGED <<err, input, flags, hist, X_columns, X_encoded, y,
                 X_scaled, processed_columns, processed_df, written>>

\* Lines 45-46.
Dedup ==
  /\ pc = "dedup"
  /\ df' = IF drop_duplicates THEN DropDuplicates(df) ELSE df
  /\ after_dedup' = df'
  /\ pc' = "target"
  /\ UNCHANGED <<err, input, flags, columns, after_outlier, X_columns, X_encoded, y,
                 X_scaled, processed_columns, processed_df, written>>

\* Variant: the missing column is reported as ValueError.
MissingTargetAsValueError ==
  /\ pc = "target"
  /\ "y" \notin Range(columns)
  /\ pc' = "error"
  /\ err' = "ValueError"
  /\ UNCHANGED <<input, flags, columns, df, hist, X_columns,
                 X_encoded, y, X_scaled, processed_columns, processed_df,
                 written>>

\* Lines 49-50.
MissingTarget ==
  /\ pc = "target"
  /\ "y" \notin Range(columns)
  /\ pc' = "error"
  /\ err' = "KeyError"
  /\ UNCHANGED <<input, flags, columns, df, hist, X_columns,
                 X_encoded, y, X_scaled, processed_columns, processed_df,
                 written>>

\* Lines 51-54, a mapped value is null.
InvalidTarget ==
  /\ pc = "target"
  /\ "y" \in Range(columns)
  /\ df' = MapTarget(df)
  /\ \E i \in 1..Len(df') : df'[i].row["y"] = NaN
  /\ pc' = "error"
  /\ err' = "ValueError"
  /\ UNCHANGED <<input, flags, columns, hist, X_columns,
                 X_encoded, y, X_scaled, processed_columns, processed_df,
                 written>>

\* Lines 51-54, no mapped value is null.
EncodeTarget ==
  /\ pc = "target"
  /\ "y" \in Range(columns)
  /\ df' = MapTarget(df)
  /\ \A i \in 1..Len(df') : df'[i].row["y"] # NaN
  /\ pc' = "outlier"
  /\ UNCHANGED <<err, input, flags, columns, hist, X_columns,
                 X_encoded, y, X_scaled, processed_columns, processed_df,
                 written>>

\* Lines 57-63.
OutlierFilter ==
  /\ pc = "outlier"
  /\ df' = IF handle_outlier_age /\ "age" \in Range(columns)
             THEN BoolIndex(df, OutlierMask(df))
             ELSE df
  /\ after_outlier' = df'
  /\ pc' = "bin"
  /\ UNCHANGED <<err, input, flags, columns, after_dedup, X_columns,
                 X_encoded, y, X_scaled, processed_columns, processed_df,
                 written>>

\* Lines 67-74.
BinAge ==
  /\ pc = "bin"
  /\ IF bin_age /\ "age" \in Range(columns)
       THEN /\ df' = BinRows(df)
            /\ columns' = DropColumn(Append(columns, "age_group"), "age")
       ELSE UNCHANGED <<df, columns>>
  /\ pc' = "split"
  /\ UNCHANGED <<err, input, flags, hist, X_columns,
                 X_encoded, y, X_scaled, processed_columns, processed_df,
                 written>>

\* ------------------------------------------------------- get_dummies
\* Columns of dtype object or category are the ones get_dummies encodes.
IsEncoded(c) == c \in {"job", "age_group"}

\* Sorted order of the strings an object column can hold.
LexOrder == <<"admin", "tech">>

\* Variant: an object column's categories in order of first appearance.
CategoriesFirstSeen(t, c) ==
  IF c = "age_group" THEN Labels
  ELSE LET col  == Column(t, c)
           keep == { i \in 1..Len(col) : \A j \in 1..(i - 1) : col[j] # col[i] }
           RECURSIVE Pick(_)
           Pick(i) == IF i > Len(col) THEN <<>>
                      ELSE IF i \in keep THEN <<col[i]>> \o Pick(i + 1)
                      ELSE Pick(i + 1)
       IN  Pick(1)

\* factorize_from_iterable: a categorical column brings all its declared
\* categories, an object column the sorted distinct values it holds.
Categories(t, c) ==
  IF c = "age_group" THEN Labels
  ELSE SelectSeq(LexOrder, LAMBDA v : v \in Range(Column(t, c)))

\* Variant: drop_first=False.
DropFirstOff(cats) == cats

\* drop_first=True.
DropFirst(cats) == IF cats = <<>> THEN <<>> ELSE Tail(cats)

DummyName(c, cat) == c \o "_" \o cat

DummyNames(t, c) ==
  LET cats == DropFirst(Categories(t, c))
  IN  [k \in 1..Len(cats) |-> DummyName(c, cats[k])]

RECURSIVE ConcatDummies(_, _)
ConcatDummies(t, cs) ==
  IF cs = <<>> THEN <<>>
  ELSE DummyNames(t, Head(cs)) \o ConcatDummies(t, Tail(cs))

\* Columns of get_dummies(X): the columns left alone, then the indicators
\* of each encoded column, in column order.
GetDummiesColumns(t, cs) ==
  SelectSeq(cs, LAMBDA c : ~IsEncoded(c))
    \o ConcatDummies(t, SelectSeq(cs, IsEncoded))

DummyPairs(t, cs) ==
  { <<c, cat>> : c \in { d \in Range(cs) : IsEncoded(d) }, cat \in Range(Labels) \cup Range(LexOrder) }

GetDummiesRows(t, cs) ==
  LET ncs  == Range(GetDummiesColumns(t, cs))
      prs  == DummyPairs(t, cs)
      from == [nm \in ncs \ Range(cs) |->
                 CHOOSE p \in prs : DummyName(p[1], p[2]) = nm]
      val(r, nm) ==
        IF nm \in Range(cs) THEN r[nm]
        ELSE IF r[from[nm][1]] = from[nm][2] THEN 1 ELSE 0
  IN  [i \in 1..Len(t) |->
         [index |-> t[i].index,
          row   |-> [nm \in ncs |-> val(t[i].row, nm)]]]

\* Lines 77-81.
SplitEncode ==
  /\ pc = "split"
  /\ LET X  == DropRows(df, "y")
         Xc == DropColumn(columns, "y")
     IN  /\ X_columns' = GetDummiesColumns(X, Xc)
         /\ X_encoded' = GetDummiesRows(X, Xc)
  /\ y' = [i \in 1..Len(df) |->
             [index |-> df[i].index, val |-> df[i].row["y"]]]
  /\ pc' = "scale"
  /\ UNCHANGED <<err, input, flags, columns, df, hist,
                 X_scaled, processed_columns, processed_df, written>>

\* ---------------------------------------------------- StandardScaler
RECURSIVE Sum(_)
Sum(s) == IF s = <<>> THEN 0 ELSE Head(s) + Sum(Tail(s))

\* (x - mean) / std of one column, as num / sqrt(den2); a column of zero
\* variance is divided by 1 (sklearn replaces a zero scale by 1).
Standardize(col) ==
  LET n  == Len(col)
      S  == Sum(col)
      SS == Sum([i \in 1..n |-> col[i] * col[i]])
      V  == n * SS - S * S
      D  == IF V = 0 THEN n * n ELSE V
  IN  [i \in 1..n |-> [num |-> n * col[i] - S, den2 |-> D]]

FitTransform(t, cs) ==
  LET scaled == [c \in Range(cs) |-> Standardize(Column(t, c))]
  IN  [i \in 1..Len(t) |-> [c \in Range(cs) |-> scaled[c][i]]]

\* Line 85, check_array rejects 0 samples or 0 features.
ScaleFail ==
  /\ pc = "scale"
  /\ (X_encoded = <<>> \/ X_columns = <<>>)
  /\ pc' = "error"
  /\ err' = "ValueError"
  /\ UNCHANGED <<input, flags, columns, df, hist, X_columns,
                 X_encoded, y, X_scaled, processed_columns, processed_df,
                 written>>

\* Lines 84-85.
Scale ==
  /\ pc = "scale"
  /\ X_encoded # <<>>
  /\ X_columns # <<>>
  /\ X_scaled' = FitTransform(X_encoded, X_columns)
  /\ pc' = "save"
  /\ UNCHANGED <<err, input, flags, columns, df, hist, X_columns,
                 X_encoded, y, processed_columns, processed_df, written>>

\* Variant: processed_df["y"] = y, aligned on index labels: row i takes the
\* target whose label is i - 1, NaN when no row carries that label.
YAligned(ys) ==
  [i \in 1..Len(ys) |->
     IF \E j \in 1..Len(ys) : ys[j].index = i - 1
       THEN ys[CHOOSE j \in 1..Len(ys) : ys[j].index = i - 1].val
       ELSE NaN]

\* y.values: the target by position, index labels ignored.
YValues(ys) == [i \in 1..Len(ys) |-> ys[i].val]

\* Lines 88-94.
Save ==
  /\ pc = "save"
  /\ processed_columns' = Append(X_columns, "y")
  /\ processed_df' =
       [i \in 1..Len(X_scaled) |-> [X |-> X_scaled[i], y |-> YValues(y)[i]]]
  /\ written' = TRUE
  /\ pc' = "done"
  /\ UNCHANGED <<err, input, flags, columns, df, hist, X_columns,
                 X_encoded, y, X_scaled>>

Next ==
  \/ MissingInput
  \/ Load
  \/ Dedup
  \/ MissingTarget
  \/ InvalidTarget
  \/ EncodeTarget
  \/ OutlierFilter
  \/ BinAge
  \/ SplitEncode
  \/ ScaleFail
  \/ Scale
  \/ Save

Spec == Init /\ [][Next]_vars

\* ======================================================== properties
\* The input record that carries index label k.
Rec(k) == records[k + 1]

HasColumn(c) == inputExists /\ c \in Range(header)

Succeeded == pc = "done"

\* Stages that can only be reached once the target check has passed.
PastTargetCheck == pc \in {"outlier", "bin", "split", "scale", "save", "done"}

PastBinning == pc \in {"split", "scale", "save", "done"}

\* ---------------------------------------------------------------- C1
\* C1: an input table without a column y makes preprocess stop at the
\* target check with KeyError, under every flag combination, and the
\* output file is never written.
C1_MissingTargetFails ==
  (inputExists /\ "y" \notin Range(header)) =>
     /\ ~written
     /\ pc \in {"start", "dedup", "target", "error"}
     /\ (pc = "error" => err = "KeyError")
     /\ (pc = "target" => ENABLED MissingTarget)

C1_Witness ==
  /\ pc = "error" /\ err = "KeyError"
  /\ "y" \notin Range(header)
  /\ Len(records) >= 2
  /\ drop_duplicates /\ handle_outlier_age /\ bin_age
  /\ ~written

AgeColumns == {"age", "age_group", "age_group_Young", "age_group_Adult",
               "age_group_Senior", "age_group_Elder"}

\* The columns of the output that come from age, in output order.
OutputAgeColumns == SelectSeq(processed_columns, LAMBDA c : c \in AgeColumns)

ThreeLevelIndicators ==
  <<"age_group_Adult", "age_group_Senior", "age_group_Elder">>

\* C3 as stated: every successful run with bin_age enabled has no age
\* column and exactly the indicator set of the 4 levels minus the
\* reference level.
C3_Original ==
  (Succeeded /\ bin_age) => OutputAgeColumns = ThreeLevelIndicators

\* C3 amended: every successful run with bin_age enabled on an input that
\* has an age column has no age column in the output and exactly one
\* indicator set, age_group_Adult, age_group_Senior, age_group_Elder (the
\* 4 levels minus the reference level Young); without an age column in
\* the input the output has no age-group indicator at all.
C3_BinnedColumns ==
  (Succeeded /\ bin_age) =>
     OutputAgeColumns =
       IF "age" \in Range(header) THEN ThreeLevelIndicators ELSE <<>>

C3_Witness ==
  /\ Succeeded /\ bin_age
  /\ HasColumn("age") /\ HasColumn("job")
  /\ OutputAgeColumns = ThreeLevelIndicators
  /\ "job_tech" \in Range(processed_columns)

\* ---------------------------------------------------------------- C4
\* The end-to-end scenario: columns age and y, 4 rows, default flags.
Scenario ==
  /\ inputExists
  /\ header = <<"age", "y">>
  /\ records = ScenarioRecords
  /\ drop_duplicates /\ handle_outlier_age /\ bin_age

Buckets == Column(df, "age_group")

\* Indicators that are hot in row i: 1 before scaling, above the column
\* mean (so positive) in the standardized output.
HotEncoded(i) == { c \in Range(X_columns) : X_encoded[i].row[c] = 1 }

HotOutput(i) == { c \in Range(X_columns) : processed_df[i].X[c].num > 0 }

ScenarioCommon ==
  /\ Len(after_dedup) = 3
  /\ Len(after_outlier) = 3
  /\ Len(processed_df) = 3
  /\ [i \in 1..3 |-> processed_df[i].y] = <<1, 0, 1>>
  /\ processed_columns = ThreeLevelIndicators \o <<"y">>
  /\ \A i \in 1..3 :
       /\ HotEncoded(i) = HotOutput(i)
       /\ Cardinality(HotOutput(i)) = IF Buckets[i] = "Young" THEN 0 ELSE 1

\* C4 as stated: the scenario ends with buckets Young, Adult, Adult.
C4_Original ==
  (Scenario /\ Succeeded) =>
     /\ ScenarioCommon
     /\ Cardinality({ i \in 1..Len(Buckets) : Buckets[i] = "Young" }) = 1
     /\ Cardinality({ i \in 1..Len(Buckets) : Buckets[i] = "Adult" }) = 2

\* C4 amended: in the scenario the duplicate is removed (3 rows survive),
\* the outlier filter removes no row, the ages 25, 70, 40 are bucketed to
\* Young, Elder, Adult, the output has 3 rows and a y column 1, 0, 1, and
\* every row has exactly one hot age-group indicator, or none when its
\* bucket is the reference level Young.
C4_Scenario ==
  /\ Scenario => pc # "error"
  /\ (Scenario /\ Succeeded) =>
       /\ ScenarioCommon
       /\ Buckets = <<"Young", "Elder", "Adult">>
       /\ HotEncoded(2) = {"age_group_Elder"}
       /\ HotEncoded(3) = {"age_group_Adult"}

C4_Witness ==
  /\ Scenario /\ Succeeded /\ written
  /\ Index(X_encoded) = <<0, 1, 2>>

\* ---------------------------------------------------------------- C5
\* C5: in every successful run the output has as many rows as the outlier
\* stage left, which is at most the number the deduplication stage left,
\* which is at most the number of input rows.
C5_RowCountMonotone ==
  Succeeded =>
     /\ Len(processed_df) = Len(after_outlier)
     /\ Len(after_outlier) <= Len(after_dedup)
     /\ Len(after_dedup) <= Len(records)

C5_Witness ==
  /\ Succeeded
  /\ Len(processed_df) < Len(after_dedup)
  /\ Len(after_dedup) < Len(records)
  /\ bin_age

\* ---------------------------------------------------------------- C6
\* The bucket the documented boundaries give an age, "" when none does.
BucketOf(a) ==
  IF 0 <= a /\ a <= 30 THEN "Young"
  ELSE IF 30 < a /\ a <= 45 THEN "Adult"
  ELSE IF 45 < a /\ a <= 60 THEN "Senior"
  ELSE IF 60 < a /\ a <= 100 THEN "Elder"
  ELSE ""

\* C6: with bin_age enabled and an age column present, after the binning
\* stage every surviving row holds exactly one of the 4 buckets, the one
\* its age falls in by Young = [0,30], Adult = (30,45], Senior = (45,60],
\* Elder = (60,100], and the age column is gone.
C6_EveryRowBucketed ==
  (PastBinning /\ bin_age /\ HasColumn("age")) =>
     /\ "age" \notin Range(columns)
     /\ "age_group" \in Range(columns)
     /\ \A i \in 1..Len(df) :
          /\ df[i].row["age_group"] \in {"Young", "Adult", "Senior", "Elder"}
          /\ df[i].row["age_group"] = BucketOf(Rec(df[i].index).age)

\* ---------------------------------------------------------------- C7
\* k-th smallest element of a sequence of numbers (k from 1).
KthSmallest(vals, k) ==
  CHOOSE v \in Range(vals) :
    /\ Cardinality({ i \in 1..Len(vals) : vals[i] < v }) < k
    /\ k <= Cardinality({ i \in 1..Len(vals) : vals[i] <= v })

\* 4 times the q/4 quantile by linear interpolation between the order
\* statistics around position (n - 1) * q / 4.
LinearQuantile4(vals, q) ==
  LET n  == Len(vals)
      h  == (n - 1) * q
      lo == (h \div 4) + 1
      hi == IF lo < n THEN lo + 1 ELSE n
      fr == h % 4
  IN  (4 - fr) * KthSmallest(vals, lo) + fr * KthSmallest(vals, hi)

DedupAges == [i \in 1..Len(after_dedup) |-> Rec(after_dedup[i].index).age]

\* The labels, in order, of the deduplicated rows whose age lies in
\* [Q1 - 1.5 IQR, Q3 + 1.5 IQR]; all terms are carried times 8.
InsideFence ==
  LET Q1  == LinearQuantile4(DedupAges, 1)
      Q3  == LinearQuantile4(DedupAges, 3)
      IQR == Q3 - Q1
      lo  == 2 * Q1 - 3 * IQR
      hi  == 2 * Q3 + 3 * IQR
  IN  SelectSeq(Index(after_dedup),
                LAMBDA k : lo <= 8 * Rec(k).age /\ 8 * Rec(k).age <= hi)

\* C7: when the outlier stage has run, the rows that leave it are, in their original
\* order, exactly the rows that left deduplication whose age lies in
\* [Q1 - 1.5 IQR, Q3 + 1.5 IQR], bounds included, with Q1 and Q3 the
\* linear-interpolation quartiles of age over the deduplicated rows; with
\* the flag off or no age column the stage removes nothing.
C7_OutlierFilter ==
  pc = "bin" =>
     Index(after_outlier) =
       IF handle_outlier_age /\ "age" \in Range(header)
         THEN InsideFence
         ELSE Index(after_dedup)

C7_Witness ==
  /\ pc = "bin" /\ handle_outlier_age /\ HasColumn("age")
  /\ Len(after_outlier) < Len(after_dedup)
  /\ Len(after_outlier) >= 2
  /\ \E i \in 1..Len(after_dedup) :
       /\ after_dedup[i].index \notin Range(Index(after_outlier))
       /\ i < Len(after_dedup)

\* ---------------------------------------------------------------- C8
\* The input row with label k, over the columns of the file.
RawRow(k) == [c \in Range(header) |-> Rec(k)[c]]

FirstOccurrence(k) == \A j \in 0..(k - 1) : RawRow(j) # RawRow(k)

AllLabels == [i \in 1..Len(records) |-> i - 1]

\* C8: with drop_duplicates enabled, when the deduplication stage has
\* run, the rows that leave it are, in their original order, exactly the first occurrences of
\* the distinct input rows (compared over all columns, raw y included),
\* and applying the stage to its own result changes nothing.
C8_Deduplication ==
  (pc = "target" /\ drop_duplicates) =>
     /\ Index(after_dedup) = SelectSeq(AllLabels, FirstOccurrence)
     /\ \A i \in 1..Len(after_dedup) :
          after_dedup[i].row = RawRow(after_dedup[i].index)
     /\ DropDuplicates(after_dedup) = after_dedup

C8_Witness ==
  /\ pc = "target" /\ drop_duplicates
  /\ HasColumn("y") /\ HasColumn("age")
  /\ Len(after_dedup) >= 2
  /\ Len(after_dedup) < Len(records)
  /\ \E i, j \in 1..Len(after_dedup) :
       /\ i < j
       /\ after_dedup[i].row["age"] = after_dedup[j].row["age"]
       /\ after_dedup[i].row["y"] # after_dedup[j].row["y"]
  /\ \E i \in 1..Len(after_dedup) : after_dedup[i].index > i

\* ---------------------------------------------------------------- C9
JobIndicators ==
  SelectSeq(X_columns, LAMBDA c : c \in {"job_admin", "job_tech"})

AgeGroupIndicators ==
  SelectSeq(X_columns, LAMBDA c : c \in AgeColumns \ {"age", "age_group"})

ObservedJobs == { df[i].row["job"] : i \in 1..Len(df) }

\* The job categories observed in the surviving rows, sorted, without the
\* first: "admin" sorts before "tech".
JobIndicatorsExpected ==
  IF ObservedJobs = {"admin", "tech"} THEN <<"job_tech">> ELSE <<>>

\* The age-group levels observed in the surviving rows, in level order.
ObservedLevels ==
  SelectSeq(<<"Young", "Adult", "Senior", "Elder">>,
            LAMBDA l : \E i \in 1..Len(df) : df[i].row["age_group"] = l)

ObservedLevelIndicators ==
  LET rest == IF ObservedLevels = <<>> THEN <<>> ELSE Tail(ObservedLevels)
  IN  [k \in 1..Len(rest) |-> "age_group_" \o rest[k]]

NonNumericExpanded ==
  /\ "job" \notin Range(X_columns)
  /\ "age_group" \notin Range(X_columns)
  /\ ("age" \in Range(columns)) = ("age" \in Range(X_columns))
  /\ "job" \in Range(columns) => JobIndicators = JobIndicatorsExpected
  /\ "job" \notin Range(columns) => JobIndicators = <<>>
  /\ "age_group" \notin Range(columns) => AgeGroupIndicators = <<>>

\* C9 as stated: the indicators of age_group are those of the levels
\* observed in the surviving rows minus the first of them.
C9_Original ==
  pc = "scale" =>
     /\ NonNumericExpanded
     /\ "age_group" \in Range(columns) =>
          AgeGroupIndicators = ObservedLevelIndicators

\* C9 amended: encoding replaces every non-numeric feature column by
\* indicator columns <original>_<category>.  A string column such as job
\* gets one per distinct value observed in the surviving rows, in sorted
\* order, minus the first.  The age_group column gets one per declared
\* level minus the first, i.e. always age_group_Adult, age_group_Senior,
\* age_group_Elder, whether or not a level is observed.
C9_CategoricalEncoding ==
  pc = "scale" =>
     /\ NonNumericExpanded
     /\ "age_group" \in Range(columns) =>
          AgeGroupIndicators = ThreeLevelIndicators
     /\ \A i \in 1..Len(X_encoded) :
          /\ "job_tech" \in Range(X_columns) =>
               (X_encoded[i].row["job_tech"] = 1) = (df[i].row["job"] = "tech")
          /\ \A l \in {"Adult", "Senior", "Elder"} :
               ("age_group_" \o l) \in Range(X_columns) =>
                 (X_encoded[i].row["age_group_" \o l] = 1)
                   = (df[i].row["age_group"] = l)

C9_Witness ==
  /\ pc = "scale"
  /\ "job" \in Range(columns) /\ "age_group" \in Range(columns)
  /\ Len(df) >= 2
  /\ df[1].row["job"] = "tech" /\ df[2].row["job"] = "admin"
  /\ ObservedLevels = <<"Young", "Adult">>
  /\ X_columns = <<"job_tech">> \o ThreeLevelIndicators

\* --------------------------------------------------------------- C10
\* The value a column of the encoded feature matrix holds for a record.
FeatureOf(rec, c) ==
  IF c = "age" THEN rec.age
  ELSE IF c = "job_tech" THEN (IF rec.job = "tech" THEN 1 ELSE 0)
  ELSE IF c = "age_group_Adult" THEN (IF BucketOf(rec.age) = "Adult" THEN 1 ELSE 0)
  ELSE IF c = "age_group_Senior" THEN (IF BucketOf(rec.age) = "Senior" THEN 1 ELSE 0)
  ELSE IF c = "age_group_Elder" THEN (IF BucketOf(rec.age) = "Elder" THEN 1 ELSE 0)
  ELSE NaN

\* The input record whose features stand in row i of the feature matrix.
Source(i) == Rec(X_encoded[i].index)

\* C10: in every successful run, row i of the output carries the
\* standardized features of one input record and the encoded target of
\* that same record (yes -> 1, no -> 0); every output y is 0 or 1.
C10_TargetAligned ==
  Succeeded =>
     LET n     == Len(X_encoded)
         total == [c \in Range(X_columns) |->
                     Sum([j \in 1..n |-> FeatureOf(Source(j), c)])]
     IN  /\ Len(processed_df) = n
         /\ \A i \in 1..Len(processed_df) :
              /\ processed_df[i].y \in {0, 1}
              /\ processed_df[i].y = (IF Source(i).y = "yes" THEN 1 ELSE 0)
              /\ Source(i).y \in {"yes", "no"}
              /\ \A c \in Range(X_columns) :
                   processed_df[i].X[c].num =
                     n * FeatureOf(Source(i), c) - total[c]

C10_Witness ==
  /\ Succeeded
  /\ Len(after_outlier) < Len(after_dedup)
  /\ Len(after_dedup) < Len(records)
  /\ \E i \in 1..Len(processed_df) : X_encoded[i].index > i
  /\ \E i, j \in 1..Len(processed_df) : processed_df[i].y # processed_df[j].y

====
